---- MODULE Spec2Model ----
(***************************************************************************)
(* Schedule I calculator: effect resolution, valuation and profit          *)
(* arithmetic of src/src/calculator.py over the catalog tables of          *)
(* src/src/game_data.py.                                                   *)
(*                                                                         *)
(* Money amounts are integers.  Effect multipliers are kept in hundredths  *)
(* (0.22 is 22) and, for the market value, as the binary64 value Python    *)
(* gives the literal.  Quotients (cost per unit, profit margin) are kept   *)
(* as exact fractions <<numerator, denominator>>.                          *)
(***************************************************************************)
EXTENDS Integers, Sequences, FiniteSets, TLC

(***************************************************************************)
(* Catalog tables (game_data.py)                                           *)
(***************************************************************************)
BASE_MARKET_VALUES ==
    ("Marijuana" :> 38) @@ ("Methamphetamine" :> 70) @@ ("Cocaine" :> 150)

MARIJUANA_STRAINS ==
    ("OG Kush" :> [effect |-> "Calming", seed_cost |-> 30, bud_value |-> 38, yield_range |-> <<11, 13>>]) @@
    ("Sour Diesel" :> [effect |-> "Refreshing", seed_cost |-> 35, bud_value |-> 40, yield_range |-> <<11, 13>>]) @@
    ("Green Crack" :> [effect |-> "Energizing", seed_cost |-> 40, bud_value |-> 43, yield_range |-> <<11, 13>>]) @@
    ("Granddaddy Purple" :> [effect |-> "Sedating", seed_cost |-> 45, bud_value |-> 44, yield_range |-> <<11, 13>>])

MIXERS ==
    ("Cuke" :> [effect |-> "Energizing", cost |-> 2]) @@
    ("Banana" :> [effect |-> "Gingeritis", cost |-> 2]) @@
    ("Paracetamol" :> [effect |-> "Sneaky", cost |-> 3]) @@
    ("Donut" :> [effect |-> "Calorie-Dense", cost |-> 3]) @@
    ("Viagra" :> [effect |-> "Tropic Thunder", cost |-> 4]) @@
    ("Flu medicine" :> [effect |-> "Sedating", cost |-> 5]) @@
    ("Mouth wash" :> [effect |-> "Balding", cost |-> 4]) @@
    ("Gasoline" :> [effect |-> "Toxic", cost |-> 5]) @@
    ("Motor oil" :> [effect |-> "Slippery", cost |-> 6]) @@
    ("Mega bean" :> [effect |-> "Foggy", cost |-> 7]) @@
    ("Chili" :> [effect |-> "Spicy", cost |-> 7]) @@
    ("Battery" :> [effect |-> "Bright-Eyed", cost |-> 8]) @@
    ("Energy drink" :> [effect |-> "Athletic", cost |-> 6]) @@
    ("Iodine" :> [effect |-> "Jennerising", cost |-> 8]) @@
    ("Addy" :> [effect |-> "Thought-Provoking", cost |-> 9]) @@
    ("Horse semen" :> [effect |-> "Long Faced", cost |-> 9])

\* Iteration order of the MIXERS dictionary (insertion order).
MixerOrder ==
    << "Cuke", "Banana", "Paracetamol", "Donut", "Viagra", "Flu medicine",
       "Mouth wash", "Gasoline", "Motor oil", "Mega bean", "Chili", "Battery",
       "Energy drink", "Iodine", "Addy", "Horse semen" >>

\* multiplier and addictiveness in hundredths
EFFECTS ==
    ("Calming" :> [multiplier |-> 10, addictiveness |-> 0]) @@
    ("Paranoia" :> [multiplier |-> 12, addictiveness |-> 12]) @@
    ("Euphoric" :> [multiplier |-> 14, addictiveness |-> 29]) @@
    ("Munchies" :> [multiplier |-> 16, addictiveness |-> 19]) @@
    ("Laxative" :> [multiplier |-> 18, addictiveness |-> 15]) @@
    ("Focused" :> [multiplier |-> 20, addictiveness |-> 31]) @@
    ("Energizing" :> [multiplier |-> 22, addictiveness |-> 34]) @@
    ("Foggy" :> [multiplier |-> 24, addictiveness |-> 27]) @@
    ("Sedating" :> [multiplier |-> 26, addictiveness |-> 30]) @@
    ("Calorie-Dense" :> [multiplier |-> 28, addictiveness |-> 27]) @@
    ("Balding" :> [multiplier |-> 30, addictiveness |-> 31]) @@
    ("Thought-Provoking" :> [multiplier |-> 32, addictiveness |-> 37]) @@
    ("Slippery" :> [multiplier |-> 34, addictiveness |-> 31]) @@
    ("Toxic" :> [multiplier |-> 0, addictiveness |-> 38]) @@
    ("Spicy" :> [multiplier |-> 36, addictiveness |-> 33]) @@
    ("Gingeritis" :> [multiplier |-> 38, addictiveness |-> 44]) @@
    ("Sneaky" :> [multiplier |-> 40, addictiveness |-> 48]) @@
    ("Disorienting" :> [multiplier |-> 42, addictiveness |-> 46]) @@
    ("Athletic" :> [multiplier |-> 44, addictiveness |-> 49]) @@
    ("Tropic Thunder" :> [multiplier |-> 46, addictiveness |-> 100]) @@
    ("Glowing" :> [multiplier |-> 48, addictiveness |-> 78]) @@
    ("Electrifying" :> [multiplier |-> 50, addictiveness |-> 80]) @@
    ("Long Faced" :> [multiplier |-> 52, addictiveness |-> 100]) @@
    ("Anti-gravity" :> [multiplier |-> 54, addictiveness |-> 86]) @@
    ("Cyclopean" :> [multiplier |-> 56, addictiveness |-> 88]) @@
    ("Zombifying" :> [multiplier |-> 58, addictiveness |-> 99]) @@
    ("Shrinking" :> [multiplier |-> 60, addictiveness |-> 91]) @@
    ("Bright-Eyed" :> [multiplier |-> 62, addictiveness |-> 93]) @@
    ("Explosive" :> [multiplier |-> 42, addictiveness |-> 55]) @@
    ("Jennerising" :> [multiplier |-> 46, addictiveness |-> 74]) @@
    ("Schizophrenic" :> [multiplier |-> 48, addictiveness |-> 80]) @@
    ("Seizure-Inducing" :> [multiplier |-> 52, addictiveness |-> 90]) @@
    ("Refreshing" :> [multiplier |-> 10, addictiveness |-> 10]) @@
    ("Smelly" :> [multiplier |-> 30, addictiveness |-> 35])

\* keyed by <<existing effect, mixer>>
EFFECT_REPLACEMENTS ==
    (<<"Smelly", "Banana">> :> "Anti-gravity") @@
    (<<"Munchies", "Paracetamol">> :> "Anti-gravity") @@
    (<<"Calming", "Mouth wash">> :> "Anti-gravity") @@
    (<<"Calming", "Banana">> :> "Sneaky") @@
    (<<"Paranoia", "Banana">> :> "Zombifying") @@
    (<<"Paranoia", "Cuke">> :> "Shrinking") @@
    (<<"Paranoia", "Paracetamol">> :> "Sneaky") @@
    (<<"Paranoia", "Flu Medicine">> :> "Shrinking") @@
    (<<"Paranoia", "Mega Bean">> :> "Jennerising") @@
    (<<"Paranoia", "Iodine">> :> "Foggy") @@
    (<<"Refreshing", "Banana">> :> "Long Faced") @@
    (<<"Refreshing", "Flu Medicine">> :> "Long Faced") @@
    (<<"Refreshing", "Addy">> :> "Glowing") @@
    (<<"Refreshing", "Horse Semen">> :> "Gingeritis") @@
    (<<"Energizing", "Paracetamol">> :> "Paranoia") @@
    (<<"Energizing", "Banana">> :> "Thought-Provoking") @@
    (<<"Calming", "Paracetamol">> :> "Slippery")

PRODUCTION_INFO ==
    ("Methamphetamine" :> [ingredients_cost |-> 140, yield |-> 10]) @@
    ("Cocaine" :> [ingredients_cost |-> 245, yield |-> 10])

ADDICTIVENESS ==
    ("OG Kush" :> 0) @@ ("Sour Diesel" :> 10) @@ ("Green Crack" :> 34) @@
    ("Granddaddy Purple" :> 0) @@ ("Methamphetamine" :> 60) @@ ("Cocaine" :> 40)

\* game maximum of effects on one product
MaxEffects == 8

(***************************************************************************)
(* Helpers on sequences                                                    *)
(***************************************************************************)
Range(s) == {s[k] : k \in 1..Len(s)}

\* a function on 1..n as the explicit sequence of its values
Listed(f) == SubSeq(f, 1, Len(f))

\* s[:n]
Take(s, n) == IF Len(s) <= n THEN s ELSE SubSeq(s, 1, n)

(***************************************************************************)
(* get_effects_from_mixers                                                 *)
(***************************************************************************)
\* variant: a strain starts without its inherent effect
InitialEffects_NoInherent(product) == <<>>

\* lines 24-27: the working list before the first mixer
InitialEffects(product) ==
    IF product \in DOMAIN MARIJUANA_STRAINS
    THEN <<MARIJUANA_STRAINS[product].effect>>
    ELSE <<>>

\* variant: the inner loop keeps scanning and the last match wins
ReplacementIndex_Last(effs, mixer) ==
    LET hits == {k \in 1..Len(effs) : <<effs[k], mixer>> \in DOMAIN EFFECT_REPLACEMENTS}
    IN  IF hits = {} THEN 0 ELSE CHOOSE k \in hits : \A j \in hits : k >= j

\* lines 36-42: index of the effect the inner loop replaces, 0 if it ends
\* without a replacement
ReplacementIndex(effs, mixer) ==
    LET hits == {k \in 1..Len(effs) : <<effs[k], mixer>> \in DOMAIN EFFECT_REPLACEMENTS}
    IN  IF hits = {} THEN 0 ELSE CHOOSE k \in hits : \A j \in hits : k <= j

\* variant: the append is not guarded by the cap
ApplyMixer_NoCap(effs, mixer) ==
    IF mixer \notin DOMAIN MIXERS THEN effs
    ELSE LET r == ReplacementIndex(effs, mixer)
         IN  IF r # 0
             THEN [effs EXCEPT ![r] = EFFECT_REPLACEMENTS[<<effs[r], mixer>>]]
             ELSE LET default_effect == MIXERS[mixer].effect
                  IN  IF default_effect \notin Range(effs)
                      THEN Append(effs, default_effect)
                      ELSE effs

\* variant: the default effect is added after a replacement as well
ApplyMixer_AlsoDefault(effs, mixer) ==
    IF mixer \notin DOMAIN MIXERS THEN effs
    ELSE LET r == ReplacementIndex(effs, mixer)
             replaced == IF r # 0
                         THEN [effs EXCEPT ![r] = EFFECT_REPLACEMENTS[<<effs[r], mixer>>]]
                         ELSE effs
             default_effect == MIXERS[mixer].effect
         IN  IF default_effect \notin Range(replaced) /\ Len(replaced) < MaxEffects
             THEN Append(replaced, default_effect)
             ELSE replaced

\* variant: the append is not guarded by the presence test
ApplyMixer_NoPresenceTest(effs, mixer) ==
    IF mixer \notin DOMAIN MIXERS THEN effs
    ELSE LET r == ReplacementIndex(effs, mixer)
         IN  IF r # 0
             THEN [effs EXCEPT ![r] = EFFECT_REPLACEMENTS[<<effs[r], mixer>>]]
             ELSE LET default_effect == MIXERS[mixer].effect
                  IN  IF Len(effs) < MaxEffects
                      THEN Append(effs, default_effect)
                      ELSE effs

\* variant: the replacement scan runs before the catalog test
ApplyMixer_LateCatalogTest(effs, mixer) ==
    LET r == ReplacementIndex(effs, mixer)
    IN  IF r # 0
        THEN [effs EXCEPT ![r] = EFFECT_REPLACEMENTS[<<effs[r], mixer>>]]
        ELSE IF mixer \notin DOMAIN MIXERS THEN effs
        ELSE LET default_effect == MIXERS[mixer].effect
             IN  IF default_effect \notin Range(effs) /\ Len(effs) < MaxEffects
                 THEN Append(effs, default_effect)
                 ELSE effs

\* variant: no replacement rule is applied
ApplyMixer_NoReplacement(effs, mixer) ==
    IF mixer \notin DOMAIN MIXERS THEN effs
    ELSE LET default_effect == MIXERS[mixer].effect
         IN  IF default_effect \notin Range(effs) /\ Len(effs) < MaxEffects
             THEN Append(effs, default_effect)
             ELSE effs

\* lines 31-48: one iteration of the mixer loop
ApplyMixer(effs, mixer) ==
    IF mixer \notin DOMAIN MIXERS THEN effs
    ELSE LET r == ReplacementIndex(effs, mixer)
         IN  IF r # 0
             THEN [effs EXCEPT ![r] = EFFECT_REPLACEMENTS[<<effs[r], mixer>>]]
             ELSE LET default_effect == MIXERS[mixer].effect
                  IN  IF default_effect \notin Range(effs) /\ Len(effs) < MaxEffects
                      THEN Append(effs, default_effect)
                      ELSE effs

\* the working list after the first n mixers of the list
RECURSIVE EffectsAfter(_, _, _)
EffectsAfter(product, mixers, n) ==
    IF n = 0 THEN InitialEffects(product)
    ELSE ApplyMixer(EffectsAfter(product, mixers, n - 1), mixers[n])

\* lines 9-51, as the callers inside calculator.py use it
get_effects_from_mixers(product, mixers) ==
    Take(EffectsAfter(product, mixers, Len(mixers)), MaxEffects)

(***************************************************************************)
(* Python floats (IEEE 754 binary64, round to nearest, ties to even)       *)
(*                                                                         *)
(* Every float calculate_market_value handles is 0 or at least 0.10, and   *)
(* below 2^10, so it is a whole number of units of 2^-56.  A float is      *)
(* modelled by that whole number, written with four limbs of 20 bits, low  *)
(* limb first: <<a, b, c, d>> is (a + b*2^20 + c*2^40 + d*2^60) * 2^-56.   *)
(***************************************************************************)
Limb == 2^20

FZero == <<0, 0, 0, 0>>

\* the integer 1 converted to float: 2^56 units
FOne == <<0, 0, 2^16, 0>>

\* carry propagation
Norm(n) ==
    LET x2 == n[2] + (n[1] \div Limb)
        x3 == n[3] + (x2 \div Limb)
        x4 == n[4] + (x3 \div Limb)
    IN  <<n[1] % Limb, x2 % Limb, x3 % Limb, x4>>

RECURSIVE BitLenSmall(_)
BitLenSmall(x) == IF x = 0 THEN 0 ELSE 1 + BitLenSmall(x \div 2)

BitLen(n) ==
    IF n[4] > 0 THEN 60 + BitLenSmall(n[4])
    ELSE IF n[3] > 0 THEN 40 + BitLenSmall(n[3])
    ELSE IF n[2] > 0 THEN 20 + BitLenSmall(n[2])
    ELSE BitLenSmall(n[1])

\* Rounding of the exact value n + f to 53 significant bits, f being a
\* fraction of one unit: 0 none, 1 below a half, 2 a half, 3 above a half.
\* At most 19 bits are dropped, all of them in the low limb.
Round53(n, f) ==
    LET d == BitLen(n) - 53
    IN  IF d <= 0
        THEN LET up == f = 3 \/ (f = 2 /\ n[1] % 2 = 1)
             IN  Norm(<<n[1] + (IF up THEN 1 ELSE 0), n[2], n[3], n[4]>>)
        ELSE LET p == 2^d
                 r == n[1] % p
                 half == p \div 2
                 odd == (n[1] \div p) % 2 = 1
                 up == r > half \/ (r = half /\ (f > 0 \/ odd))
             IN  Norm(<<n[1] - r + (IF up THEN p ELSE 0), n[2], n[3], n[4]>>)

\* the float of the decimal literal k/100 (0.22 is k = 22)
DecToDouble(k) ==
    IF k = 0 THEN FZero
    ELSE LET n == Norm(<<0, 0, k * 2^16, 0>>)
             q4 == n[4] \div 100
             r4 == n[4] % 100
             q3 == (r4 * Limb + n[3]) \div 100
             r3 == (r4 * Limb + n[3]) % 100
             q2 == (r3 * Limb + n[2]) \div 100
             r2 == (r3 * Limb + n[2]) % 100
             q1 == (r2 * Limb + n[1]) \div 100
             r1 == (r2 * Limb + n[1]) % 100
             f == IF r1 = 0 THEN 0 ELSE IF r1 < 50 THEN 1 ELSE IF r1 = 50 THEN 2 ELSE 3
         IN  Round53(<<q1, q2, q3, q4>>, f)

\* float + float
FAdd(a, b) == Round53(Norm(<<a[1] + b[1], a[2] + b[2], a[3] + b[3], a[4] + b[4]>>), 0)

\* int * float, the int below 2^10
FMulInt(k, a) == Round53(Norm(<<k * a[1], k * a[2], k * a[3], k * a[4]>>), 0)

\* the float value of each effect's multiplier literal
Multiplier64 == [e \in DOMAIN EFFECTS |-> DecToDouble(EFFECTS[e].multiplier)]

(***************************************************************************)
(* calculate_market_value                                                  *)
(***************************************************************************)
Raised(exc) == [raised |-> TRUE, value |-> exc]

Returned(v) == [raised |-> FALSE, value |-> v]

KnownProduct(product) ==
    product \in DOMAIN BASE_MARKET_VALUES \/ product \in DOMAIN MARIJUANA_STRAINS

\* lines 69-72
BaseValue(product) ==
    IF product \in DOMAIN BASE_MARKET_VALUES
    THEN BASE_MARKET_VALUES[product]
    ELSE MARIJUANA_STRAINS[product].bud_value

\* line 77: the sum is taken left to right, in floats
RECURSIVE MultiplierTotal(_, _)
MultiplierTotal(effects_list, n) ==
    IF n = 0 THEN FZero
    ELSE IF effects_list[n] \in DOMAIN EFFECTS
         THEN FAdd(MultiplierTotal(effects_list, n - 1), Multiplier64[effects_list[n]])
         ELSE MultiplierTotal(effects_list, n - 1)

\* line 80
TotalValue(product, effects_list) ==
    FMulInt(BaseValue(product), FAdd(FOne, MultiplierTotal(effects_list, Len(effects_list))))

\* lines 83-86: int() when the float's fraction is exactly 0.5, else round()
RoundMarketValue(tv) ==
    LET whole == (tv[3] \div 2^16) + tv[4] * 2^4
        frac3 == tv[3] % 2^16
        exactly_half == tv[1] = 0 /\ tv[2] = 0 /\ frac3 = 2^15
        above_half == frac3 > 2^15 \/ (frac3 = 2^15 /\ (tv[1] > 0 \/ tv[2] > 0))
    IN  IF exactly_half THEN whole
        ELSE IF above_half THEN whole + 1 ELSE whole

\* variant: a product in neither table is valued from a base of 0
calculate_market_value_NoRaise(product, effects_list) ==
    IF ~KnownProduct(product) THEN Returned(0)
    ELSE Returned(RoundMarketValue(TotalValue(product, effects_list)))

\* lines 54-86
calculate_market_value(product, effects_list) ==
    IF ~KnownProduct(product) THEN Raised("ValueError")
    ELSE Returned(RoundMarketValue(TotalValue(product, effects_list)))

(***************************************************************************)
(* calculate_mixer_cost, calculate_product_cost                            *)
(***************************************************************************)
\* line 99
RECURSIVE MixerCostUpTo(_, _)
MixerCostUpTo(mixers, n) ==
    IF n = 0 THEN 0
    ELSE MixerCostUpTo(mixers, n - 1)
         + (IF mixers[n] \in DOMAIN MIXERS THEN MIXERS[mixers[n]].cost ELSE 0)

calculate_mixer_cost(mixers) == MixerCostUpTo(mixers, Len(mixers))

\* variant: without strain or production data the cost basis is 0
BaseCost_NoFallback(product) ==
    IF product \in DOMAIN MARIJUANA_STRAINS
    THEN <<2 * MARIJUANA_STRAINS[product].seed_cost,
           MARIJUANA_STRAINS[product].yield_range[1]
             + MARIJUANA_STRAINS[product].yield_range[2]>>
    ELSE IF product \in DOMAIN PRODUCTION_INFO
    THEN <<PRODUCTION_INFO[product].ingredients_cost, PRODUCTION_INFO[product].yield>>
    ELSE <<0, 1>>

\* lines 116-131: the cost of one unit before mixers, as the fraction
\* <<numerator, denominator>>.  seed_cost / ((min + max) / 2) is
\* 2 * seed_cost / (min + max).
BaseCost(product) ==
    IF product \in DOMAIN MARIJUANA_STRAINS
    THEN LET s == MARIJUANA_STRAINS[product]
         IN  <<2 * s.seed_cost, s.yield_range[1] + s.yield_range[2]>>
    ELSE IF product \in DOMAIN PRODUCTION_INFO
    THEN <<PRODUCTION_INFO[product].ingredients_cost, PRODUCTION_INFO[product].yield>>
    ELSE IF product \in DOMAIN BASE_MARKET_VALUES
    THEN <<BASE_MARKET_VALUES[product], 1>>
    ELSE <<0, 1>>

\* Python's round(x) of the non-negative fraction num/den: to the nearest
\* integer, a tie to the even one.  The floats of line 137 that are ties
\* (2.5 + n, 24.5 + n) are exact, and the inexact ones (35/12, 40/12 plus
\* an integer) lie 1/12 away from a tie, so the fraction decides as the
\* float does.
PyRound(num, den) ==
    LET q == num \div den
        r == num % den
    IN  IF 2 * r < den THEN q
        ELSE IF 2 * r > den THEN q + 1
        ELSE IF q % 2 = 0 THEN q ELSE q + 1

\* variant: the cost of the mixers alone
calculate_product_cost_MixersOnly(product, mixers) == calculate_mixer_cost(mixers)

\* lines 102-137
calculate_product_cost(product, mixers) ==
    LET base_cost == BaseCost(product)
        mixer_cost == calculate_mixer_cost(mixers)
    IN  PyRound(base_cost[1] + mixer_cost * base_cost[2], base_cost[2])

(***************************************************************************)
(* calculate_profit                                                        *)
(***************************************************************************)
RECURSIVE GCD(_, _)
GCD(a, b) == IF b = 0 THEN a ELSE GCD(b, a % b)

Abs(x) == IF x < 0 THEN -x ELSE x

\* the fraction num/den (den > 0) in lowest terms; equal quotients give
\* equal floats and unequal ones differ by far more than a rounding error,
\* so the fraction stands for the float quotient
Frac(num, den) ==
    LET g == GCD(Abs(num), den)
    IN  <<num \div g, den \div g>>

\* variant: the ratio is not scaled to a percentage
ProfitMargin_Ratio(profit, total_cost) ==
    IF total_cost > 0 THEN Frac(profit, total_cost) ELSE <<0, 1>>

\* lines 161-164
ProfitMargin(profit, total_cost) ==
    IF total_cost > 0 THEN Frac(profit * 100, total_cost) ELSE <<0, 1>>

\* the float value of each addictiveness literal
Addictiveness64 == [e \in DOMAIN EFFECTS |-> DecToDouble(EFFECTS[e].addictiveness)]

\* line 172
RECURSIVE EffectAddictiveness(_, _)
EffectAddictiveness(effects_list, n) ==
    IF n = 0 THEN FZero
    ELSE IF effects_list[n] \in DOMAIN EFFECTS
         THEN FAdd(EffectAddictiveness(effects_list, n - 1), Addictiveness64[effects_list[n]])
         ELSE EffectAddictiveness(effects_list, n - 1)

\* a <= b on floats
FLeq(a, b) ==
    \/ a[4] < b[4]
    \/ a[4] = b[4] /\ a[3] < b[3]
    \/ a[4] = b[4] /\ a[3] = b[3] /\ a[2] < b[2]
    \/ a[4] = b[4] /\ a[3] = b[3] /\ a[2] = b[2] /\ a[1] <= b[1]

\* line 167
BaseAddictiveness(product) ==
    IF product \in DOMAIN ADDICTIVENESS
    THEN DecToDouble(ADDICTIVENESS[product]) ELSE FZero

\* variant: the total is returned without the cap
CapAddictiveness_NoCap(total) == total

\* line 175: min(1.0, total)
CapAddictiveness(total) == IF FLeq(total, FOne) THEN total ELSE FOne

\* lines 167-175
TotalAddictiveness(product, effects_list) ==
    CapAddictiveness(FAdd(BaseAddictiveness(product),
                          EffectAddictiveness(effects_list, Len(effects_list))))

\* lines 158-177: the dictionary returned, from the market value, the cost
\* and the effects
ProfitRecord(product, market_value, total_cost, effs) ==
    [market_value |-> market_value,
     total_cost |-> total_cost,
     profit |-> market_value - total_cost,
     profit_margin |-> ProfitMargin(market_value - total_cost, total_cost),
     effects |-> effs,
     addictiveness |-> TotalAddictiveness(product, effs)]

\* lines 156-177: mv is what calculate_market_value ended in
ProfitAfterValue(product, mixers, effs, mv) ==
    IF mv.raised THEN mv
    ELSE Returned(ProfitRecord(product, mv.value,
                               calculate_product_cost(product, mixers), effs))

\* lines 156-177: effs is the resolved effect list
ProfitOf(product, mixers, effs) ==
    ProfitAfterValue(product, mixers, effs, calculate_market_value(product, effs))

\* lines 140-177; the unknown-product error of calculate_market_value
\* (line 156) passes through
calculate_profit(product, mixers) ==
    ProfitOf(product, mixers, get_effects_from_mixers(product, mixers))

(***************************************************************************)
(* find_top_profit_recipes                                                 *)
(***************************************************************************)
\* tuple(sorted(effects)) is used for membership tests only: two lists have
\* the same one exactly when they hold the same names the same number of
\* times, which is what this function of the list records
EffectSignature(effs) ==
    [e \in Range(effs) |-> Cardinality({k \in 1..Len(effs) : effs[k] = e})]

\* variant: the profit is stored where the margin belongs
CandidateRecord_ProfitAsMargin(mixers, r) ==
    [mixers |-> mixers,
     market_value |-> r.market_value,
     total_cost |-> r.total_cost,
     profit |-> r.profit,
     profit_margin |-> <<r.profit, 1>>,
     effects |-> r.effects,
     effect_signature |-> EffectSignature(r.effects),
     addictiveness |-> r.addictiveness]

\* lines 251-270 and 294-312: the record of one mixer list
CandidateRecord(mixers, r) ==
    [mixers |-> mixers,
     market_value |-> r.market_value,
     total_cost |-> r.total_cost,
     profit |-> r.profit,
     profit_margin |-> r.profit_margin,
     effects |-> r.effects,
     effect_signature |-> EffectSignature(r.effects),
     addictiveness |-> r.addictiveness]

\* lines 251 and 295: the record of the list's calculate_profit
Candidate(product, mixers) ==
    CandidateRecord(mixers, calculate_profit(product, mixers).value)

\* a >= b and a > b on margins (fractions with positive denominators)
MarginGeq(a, b) == a[1] * b[2] >= b[1] * a[2]

MarginGt(a, b) == a[1] * b[2] > b[1] * a[2]

\* sorted(seq, key=profit_margin, reverse=True).  The sort is stable, so a
\* record goes behind the records of greater margin and behind the earlier
\* records of equal margin; place[k] is where seq[k] lands.
SortedByMargin(seq) ==
    LET n == Len(seq)
        place == Listed([k \in 1..n |->
                    1 + Cardinality({j \in 1..n :
                          \/ MarginGt(seq[j].profit_margin, seq[k].profit_margin)
                          \/ j < k /\ MarginGeq(seq[j].profit_margin, seq[k].profit_margin)})])
    IN  Listed([p \in 1..n |-> seq[CHOOSE k \in 1..n : place[k] = p]])

\* variant: of the records with one signature the last is kept
NewIndexes_Last(all, seen) ==
    LET IsNew(k) ==
            /\ all[k].effect_signature \notin seen
            /\ \A j \in (k + 1)..Len(all) : all[j].effect_signature # all[k].effect_signature
    IN  SelectSeq([k \in 1..Len(all) |-> k], IsNew)

\* lines 254-256 and 298-300: of the records all, in order, the indexes of
\* those whose signature was not seen before, that is, is not in seen and
\* is not the signature of an earlier record
NewIndexes(all, seen) ==
    LET IsNew(k) ==
            /\ all[k].effect_signature \notin seen
            /\ \A j \in 1..(k - 1) : all[j].effect_signature # all[k].effect_signature
    IN  SelectSeq([k \in 1..Len(all) |-> k], IsNew)

\* the records of all at the indexes new
RecordsAt(all, new) == Listed([p \in 1..Len(new) |-> all[new[p]]])

\* lines 254-270 and 298-312: the records kept and the signatures seen
KeptAndSeen(all, seen) ==
    [kept |-> RecordsAt(all, NewIndexes(all, seen)),
     seen |-> seen \cup {all[k].effect_signature : k \in 1..Len(all)}]

\* lines 250-270 and 294-312: the mixer lists are evaluated in order and a
\* record is kept when its signature was not seen before.  The result holds
\* the kept records and the signatures seen.
AddCandidates(product, lists, seen) ==
    KeptAndSeen(Listed([k \in 1..Len(lists) |-> Candidate(product, lists[k])]), seen)

\* lines 236-241
SeedCombinations == <<<<>>>> \o [k \in 1..Len(MixerOrder) |-> <<MixerOrder[k]>>]

\* variant: a mixer the list holds is added as well
ExtendedBy_Repeats(mixers, n) == Listed([k \in 1..n |-> Append(mixers, MixerOrder[k])])

\* lines 291-293: a mixer list extended by each of the first n catalog
\* mixers that is not in it
RECURSIVE ExtendedBy(_, _)
ExtendedBy(mixers, n) ==
    IF n = 0 THEN <<>>
    ELSE IF MixerOrder[n] \in Range(mixers)
         THEN ExtendedBy(mixers, n - 1)
         ELSE Append(ExtendedBy(mixers, n - 1), Append(mixers, MixerOrder[n]))

\* lines 283-293: the mixer lists one depth tries, over the first n records
\* of the pruned list
RECURSIVE Extensions(_, _, _)
Extensions(pruned, n, limit) ==
    IF n = 0 THEN <<>>
    ELSE IF limit.given /\ Len(pruned[n].mixers) >= limit.value
         THEN Extensions(pruned, n - 1, limit)
         ELSE Extensions(pruned, n - 1, limit)
              \o ExtendedBy(pruned[n].mixers, Len(MixerOrder))

Max(S) == CHOOSE x \in S : \A y \in S : y <= x

\* lines 334-342: the best record of each market value, highest value first,
\* until top_n records are taken
RECURSIVE DiverseResults(_, _, _, _)

\* variant: the last of the group in margin order
BestOfValue_Last(pool, key) ==
    LET HasKey(c) == c.market_value = key
    IN  SortedByMargin(SelectSeq(pool, HasKey))[Len(SelectSeq(pool, HasKey))]

\* lines 326-332 and 337: the best record of the market value key
BestOfValue(pool, key) ==
    LET HasKey(c) == c.market_value = key
    IN  SortedByMargin(SelectSeq(pool, HasKey))[1]

\* lines 338-342: taken holds the record just added
NextValue(pool, keys, n, taken) ==
    IF Len(taken) >= n THEN taken ELSE DiverseResults(pool, keys, n, taken)

DiverseResults(pool, keys, n, acc) ==
    IF keys = {} THEN acc
    ELSE NextValue(pool, keys \ {Max(keys)}, n,
                   Append(acc, BestOfValue(pool, Max(keys))))

\* variant: the pool is appended from its start, taken or not
Backfill_Again(pool, n, diverse) == diverse \o Take(pool, n - Len(diverse))

\* lines 345-351: the records of the pool not taken yet are added in pool
\* order until top_n are taken
Backfill(pool, n, diverse) ==
    LET NotTaken(c) == c \notin Range(diverse)
    IN  diverse \o Take(SelectSeq(pool, NotTaken), n - Len(diverse))

\* lines 354-356
WithoutSignature(c) ==
    [mixers |-> c.mixers,
     market_value |-> c.market_value,
     total_cost |-> c.total_cost,
     profit |-> c.profit,
     profit_margin |-> c.profit_margin,
     effects |-> c.effects,
     addictiveness |-> c.addictiveness]

\* lines 334 and 345
Filled(pool, n, diverse) ==
    IF Len(diverse) < n THEN Backfill(pool, n, diverse) ELSE diverse

\* variant: the records keep their signature
Stripped_KeepsSignature(filled) == filled

\* lines 354-356
Stripped(filled) == Listed([k \in 1..Len(filled) |-> WithoutSignature(filled[k])])

\* lines 325-351: diverse_results when the loops have ended
Selected(pool, n) ==
    Filled(pool, n, DiverseResults(pool, {pool[k].market_value : k \in 1..Len(pool)}, n, <<>>))

\* lines 354-356 seen from a list that holds the same records: the del
\* acts on the record itself, so the records selected lose their signature
\* wherever they are held
StripSelected(held, selected) ==
    Listed([k \in 1..Len(held) |->
                IF held[k] \in Range(selected) THEN WithoutSignature(held[k]) ELSE held[k]])

\* variant: the sorted list is returned without the slice [:top_n]
FinalResults_NoTruncate(pool, n) ==
    SortedByMargin(Stripped(Filled(pool, n,
        DiverseResults(pool, {pool[k].market_value : k \in 1..Len(pool)}, n, <<>>))))

\* variant: the list is returned without the final sort
FinalResults_Unsorted(pool, n) ==
    Take(Stripped(Filled(pool, n,
            DiverseResults(pool, {pool[k].market_value : k \in 1..Len(pool)}, n, <<>>))),
         n)

\* lines 323-359
FinalResults(pool, n) ==
    Take(SortedByMargin(Stripped(Filled(pool, n,
            DiverseResults(pool, {pool[k].market_value : k \in 1..Len(pool)}, n, <<>>)))),
         n)

\* lines 229-231
MaxDepth(limit) == IF limit.given /\ limit.value < 8 THEN limit.value ELSE 8

\* variant: the beam is the first top_n records
PoolState_NarrowBeam(best, n, seen) == [best |-> best, pruned |-> Take(best, n), seen |-> seen]

\* lines 273-276 and 315-318: the sorted pool and its first top_n * 5
\* records
PoolState(best, n, seen) == [best |-> best, pruned |-> Take(best, n * 5), seen |-> seen]

\* lines 269-276 and 311-318: the records kept are added to the pool
Merged(pool, new, n) == PoolState(SortedByMargin(pool \o new.kept), n, new.seen)

\* lines 236-276: the pool, the pruned list and the signatures after the
\* seeds
SeedPool(product, n) ==
    Merged(<<>>, AddCandidates(product, SeedCombinations, {}), n)

\* lines 280-321: the same after one more depth
ExploreDepth(product, st, n, limit) ==
    Merged(st.best,
           AddCandidates(product, Extensions(st.pruned, Len(st.pruned), limit), st.seen),
           n)

\* lines 279-321 as a whole: the pool after the depths d to last
RECURSIVE Explore(_, _, _, _, _, _)
Explore(product, sts, n, limit, d, last) ==
    IF Len(sts) = 0 \/ d > last THEN sts[1]
    ELSE Explore(product, <<ExploreDepth(product, sts[1], n, limit)>>, n, limit, d + 1, last)

\* lines 214-359: one call of find_top_profit_recipes from start to return
find_top_profit_recipes(product, n, limit) ==
    IF calculate_profit(product, SeedCombinations[1]).raised
    THEN calculate_profit(product, SeedCombinations[1])
    ELSE Returned(FinalResults(
            Explore(product, <<SeedPool(product, n)>>, n, limit, 2, MaxDepth(limit)).best, n))

\* lines 376-381: the products in the order the two loops of
\* find_all_top_recipes take them, BASE_MARKET_VALUES then MARIJUANA_STRAINS
ProductOrder ==
    << "Marijuana", "Methamphetamine", "Cocaine",
       "OG Kush", "Sour Diesel", "Green Crack", "Granddaddy Purple" >>

\* lines 377 and 381: results[product] = value
DictSet(dict, key, value) ==
    [k \in DOMAIN dict \cup {key} |-> IF k = key THEN value ELSE dict[k]]

(***************************************************************************)
(* Inputs of the calls                                                     *)
(***************************************************************************)
\* longest mixer list of a call, any names in any order
MaxLen == 2

\* longest effect list handed to calculate_market_value directly
MaxEffectArgs == 2

\* number of leading catalog mixers the long lists are drawn from
PoolSize == 11

\* largest top_n of a search
MaxTopN == 2

\* largest max_mixers given to a search
MaxMixersArg == 2

\* largest top_n of the searches among the seeds
MaxLargeTopN == 18

\* max_mixers=None and max_mixers=k
NoLimit == [given |-> FALSE, value |-> 0]

Limit(k) == [given |-> TRUE, value |-> k]

\* no limit and the small ones
MixerLimits == {NoLimit} \cup {Limit(k) : k \in 0..MaxMixersArg}

\* lines 229-231 and 287: also a limit below 0, the cap of 8 and a limit
\* above it
WideLimits == MixerLimits \cup {Limit(-1), Limit(8), Limit(9)}

\* a top_n around the size of the pool of seeds: more than its market
\* values, more than its candidates
LargeTopN == (MaxLargeTopN - 6)..MaxLargeTopN

\* limits under which the pool stays the pool of seeds
SeedLimits == {Limit(0), Limit(1)}

\* a product name in no table
UnknownProduct == "Unknown product"

Products == DOMAIN BASE_MARKET_VALUES \cup DOMAIN MARIJUANA_STRAINS \cup {UnknownProduct}

\* catalog mixers, a name that only the replacement table knows, a name
\* nothing knows
MixerNames == DOMAIN MIXERS \cup {"Flu Medicine", "Unknown mixer"}

EffectNames == DOMAIN EFFECTS \cup {"Unknown effect"}

SeqsUpTo(S, n) == UNION {[1..k -> S] : k \in 0..n}

MixerLists == SeqsUpTo(MixerNames, MaxLen)

EffectLists == SeqsUpTo(EffectNames, MaxEffectArgs)

\* the members of an index set as a sequence in catalog order
RECURSIVE InCatalogOrder(_, _)
InCatalogOrder(idx, k) ==
    IF k = 0 THEN <<>>
    ELSE IF k \in idx
         THEN Append(InCatalogOrder(idx, k - 1), MixerOrder[k])
         ELSE InCatalogOrder(idx, k - 1)

\* long lists: every selection of the first PoolSize catalog mixers, in
\* catalog order
OrderedLists == {InCatalogOrder(idx, PoolSize) : idx \in SUBSET (1..PoolSize)}

\* five mixers taken in every order, without repeats
DeepMixers == {"Viagra", "Horse semen", "Battery", "Mega bean", "Energy drink"}

DeepLists ==
    {m \in SeqsUpTo(DeepMixers, Cardinality(DeepMixers)) :
        \A a, b \in 1..Len(m) : a # b => m[a] # m[b]}

LongLists == OrderedLists \cup DeepLists

(***************************************************************************)
(* State                                                                   *)
(***************************************************************************)
VARIABLES
    call,           \* the function called: "none" before any call
    pc,             \* "idle", "loop" (inside the mixer loop), "done"
    base_product,   \* argument
    mixer_list,     \* argument
    effects_list,   \* argument of calculate_market_value
    i,              \* mixers of mixer_list consumed by the loop
    effects,        \* working list of get_effects_from_mixers
    result,         \* what the call returned or raised
    top_n,          \* argument of find_top_profit_recipes
    max_mixers,     \* argument of find_top_profit_recipes
    max_depth,      \* local of find_top_profit_recipes
    depth,          \* next depth of the exploration loop
    best_combinations,
    pruned_combinations,
    seen_effect_signatures,
    results,        \* the dictionary find_all_top_recipes fills
    product_index,  \* products the loops of find_all_top_recipes have consumed
    repeated        \* the call under way is the second with these arguments

search_vars == <<top_n, max_mixers, max_depth, depth, best_combinations,
                 pruned_combinations, seen_effect_signatures, results, product_index>>

vars == <<call, pc, base_product, mixer_list, effects_list, i, effects, result,
          top_n, max_mixers, max_depth, depth, best_combinations,
          pruned_combinations, seen_effect_signatures, results, product_index,
          repeated>>

None == [raised |-> FALSE, value |-> "None"]

Init ==
    /\ call = "none"
    /\ pc = "idle"
    /\ base_product = ""
    /\ mixer_list = <<>>
    /\ effects_list = <<>>
    /\ i = 0
    /\ effects = <<>>
    /\ result = None
    /\ top_n = 0
    /\ max_mixers = NoLimit
    /\ max_depth = 0
    /\ depth = 0
    /\ best_combinations = <<>>
    /\ pruned_combinations = <<>>
    /\ seen_effect_signatures = {}
    /\ results = <<>>
    /\ product_index = 0
    /\ repeated = FALSE

(***************************************************************************)
(* get_effects_from_mixers, one mixer at a time                            *)
(***************************************************************************)
\* lines 24-27
EnterGetEffects(product, mixers) ==
    /\ pc = "idle"
    /\ call' = "get_effects_from_mixers"
    /\ pc' = "loop"
    /\ base_product' = product
    /\ mixer_list' = mixers
    /\ i' = 0
    /\ effects' = InitialEffects(product)
    /\ UNCHANGED <<effects_list, result>>
    /\ UNCHANGED search_vars

\* variant: the loop takes the mixers out of the caller's list
MixerLoop_ConsumesList ==
    /\ pc = "loop"
    /\ mixer_list # <<>>
    /\ effects' = ApplyMixer(effects, Head(mixer_list))
    /\ mixer_list' = Tail(mixer_list)
    /\ UNCHANGED <<call, pc, base_product, effects_list, i, result>>
    /\ UNCHANGED search_vars
    /\ UNCHANGED repeated

\* lines 30-48, one iteration
MixerLoop ==
    /\ pc = "loop"
    /\ i < Len(mixer_list)
    /\ effects' = ApplyMixer(effects, mixer_list[i + 1])
    /\ i' = i + 1
    /\ UNCHANGED <<call, pc, base_product, mixer_list, effects_list, result>>
    /\ UNCHANGED search_vars
    /\ UNCHANGED repeated

\* line 51
ReturnEffects ==
    /\ pc = "loop"
    /\ i = Len(mixer_list)
    /\ result' = Returned(Take(effects, MaxEffects))
    /\ pc' = "done"
    /\ UNCHANGED <<call, base_product, mixer_list, effects_list, i, effects>>
    /\ UNCHANGED search_vars
    /\ UNCHANGED repeated

GetEffects ==
    /\ pc = "idle"
    /\ \E product \in Products, mixers \in MixerLists : EnterGetEffects(product, mixers)
    /\ UNCHANGED repeated

GetEffectsLong ==
    /\ pc = "idle"
    /\ \E product \in Products, mixers \in LongLists : EnterGetEffects(product, mixers)
    /\ UNCHANGED repeated

(***************************************************************************)
(* The other calls, each in one step                                       *)
(***************************************************************************)
Finish(name, product, mixers, effs, res) ==
    /\ pc = "idle"
    /\ call' = name
    /\ pc' = "done"
    /\ base_product' = product
    /\ mixer_list' = mixers
    /\ effects_list' = effs
    /\ result' = res
    /\ UNCHANGED <<i, effects>>
    /\ UNCHANGED search_vars

MarketValue ==
    /\ pc = "idle"
    /\ \E product \in Products, effs \in EffectLists :
            Finish("calculate_market_value", product, <<>>, effs,
                   calculate_market_value(product, effs))
    /\ UNCHANGED repeated

MixerCost ==
    /\ pc = "idle"
    /\ \E mixers \in MixerLists :
            Finish("calculate_mixer_cost", "", mixers, <<>>,
                   Returned(calculate_mixer_cost(mixers)))
    /\ UNCHANGED repeated

ProductCost ==
    /\ pc = "idle"
    /\ \E product \in Products, mixers \in MixerLists :
            Finish("calculate_product_cost", product, mixers, <<>>,
                   Returned(calculate_product_cost(product, mixers)))
    /\ UNCHANGED repeated

EnterProfit(product, mixers) ==
    Finish("calculate_profit", product, mixers, <<>>, calculate_profit(product, mixers))

Profit ==
    /\ pc = "idle"
    /\ \E product \in Products, mixers \in MixerLists : EnterProfit(product, mixers)
    /\ UNCHANGED repeated

ProfitLong ==
    /\ pc = "idle"
    /\ \E product \in Products, mixers \in LongLists : EnterProfit(product, mixers)
    /\ UNCHANGED repeated

(***************************************************************************)
(* find_top_profit_recipes: the seeds, one depth at a time, the selection  *)
(***************************************************************************)
\* lines 273-276 and 315-318: the three collections are assigned
StorePool(st) ==
    /\ best_combinations' = st.best
    /\ pruned_combinations' = st.pruned
    /\ seen_effect_signatures' = st.seen

\* lines 229-276; the unknown-product error of the first calculate_profit
\* (line 251) ends the call
EnterSearch(product, n, limit) ==
    /\ call' = "find_top_profit_recipes"
    /\ base_product' = product
    /\ top_n' = n
    /\ max_mixers' = limit
    /\ max_depth' = MaxDepth(limit)
    /\ depth' = 2
    /\ IF calculate_profit(product, SeedCombinations[1]).raised
       THEN /\ result' = calculate_profit(product, SeedCombinations[1])
            /\ pc' = "done"
            /\ UNCHANGED <<best_combinations, pruned_combinations, seen_effect_signatures>>
       ELSE /\ StorePool(SeedPool(product, n))
            /\ pc' = "search"
            /\ UNCHANGED result
    /\ UNCHANGED <<mixer_list, effects_list, i, effects, results, product_index>>

Search ==
    /\ pc = "idle"
    /\ \E product \in Products, n \in 0..MaxTopN, limit \in MixerLimits :
            EnterSearch(product, n, limit)
    /\ UNCHANGED repeated

SearchWide ==
    /\ pc = "idle"
    /\ \E product \in Products, n \in 0..MaxTopN, limit \in WideLimits :
            EnterSearch(product, n, limit)
    /\ UNCHANGED repeated

SearchLarge ==
    /\ pc = "idle"
    /\ \E product \in Products, n \in LargeTopN, limit \in SeedLimits :
            EnterSearch(product, n, limit)
    /\ UNCHANGED repeated

\* variant: the depth loop runs to depth 8 and extends every list,
\* whatever max_mixers is
SearchDepth_IgnoresBudget ==
    /\ pc = "search"
    /\ depth <= 8
    /\ StorePool(ExploreDepth(base_product,
                              [best |-> best_combinations,
                               pruned |-> pruned_combinations,
                               seen |-> seen_effect_signatures],
                              top_n, NoLimit))
    /\ depth' = depth + 1
    /\ UNCHANGED <<call, pc, base_product, mixer_list, effects_list, i, effects, result,
                   top_n, max_mixers, max_depth, results, product_index>>
    /\ UNCHANGED repeated

\* lines 279-321, one depth
SearchDepth ==
    /\ pc = "search"
    /\ depth <= max_depth
    /\ StorePool(ExploreDepth(base_product,
                              [best |-> best_combinations,
                               pruned |-> pruned_combinations,
                               seen |-> seen_effect_signatures],
                              top_n, max_mixers))
    /\ depth' = depth + 1
    /\ UNCHANGED <<call, pc, base_product, mixer_list, effects_list, i, effects, result,
                   top_n, max_mixers, max_depth, results, product_index>>
    /\ UNCHANGED repeated

\* lines 323-359
SearchReturn ==
    /\ pc = "search"
    /\ depth > max_depth
    /\ result' = Returned(FinalResults(best_combinations, top_n))
    /\ best_combinations' =
            StripSelected(best_combinations, Selected(best_combinations, top_n))
    /\ pruned_combinations' =
            StripSelected(pruned_combinations, Selected(best_combinations, top_n))
    /\ pc' = "done"
    /\ UNCHANGED <<call, base_product, mixer_list, effects_list, i, effects,
                   top_n, max_mixers, max_depth, depth, seen_effect_signatures,
                   results, product_index>>
    /\ UNCHANGED repeated

(***************************************************************************)
(* find_all_top_recipes: one product after the other, each search stepped  *)
(* as above                                                                *)
(***************************************************************************)
\* line 373
EnterAll(n, limit) ==
    /\ call' = "find_all_top_recipes"
    /\ pc' = "all"
    /\ top_n' = n
    /\ max_mixers' = limit
    /\ results' = <<>>
    /\ product_index' = 0
    /\ UNCHANGED <<base_product, mixer_list, effects_list, i, effects, result,
                   max_depth, depth, best_combinations, pruned_combinations,
                   seen_effect_signatures>>

FindAll ==
    /\ pc = "idle"
    /\ \E n \in 0..MaxTopN, limit \in MixerLimits : EnterAll(n, limit)
    /\ UNCHANGED repeated

\* the frame of a step inside one of the searches of find_all_top_recipes
AllFrame ==
    UNCHANGED <<call, mixer_list, effects_list, i, effects, top_n, max_mixers, results>>

\* variant: the signatures seen for the products before stay in the set
AllCall_SharedSignatures ==
    /\ pc = "all"
    /\ product_index < Len(ProductOrder)
    /\ base_product' = ProductOrder[product_index + 1]
    /\ product_index' = product_index + 1
    /\ max_depth' = MaxDepth(max_mixers)
    /\ depth' = 2
    /\ StorePool(Merged(<<>>, AddCandidates(ProductOrder[product_index + 1],
                                            SeedCombinations, seen_effect_signatures),
                        top_n))
    /\ pc' = "all_search"
    /\ UNCHANGED result
    /\ AllFrame
    /\ UNCHANGED repeated

\* lines 376-377 and 380-381: the loops take the next product and call
\* find_top_profit_recipes, which starts from collections of its own
\* (lines 229-276); an exception of the call leaves find_all_top_recipes
AllCall ==
    /\ pc = "all"
    /\ product_index < Len(ProductOrder)
    /\ base_product' = ProductOrder[product_index + 1]
    /\ product_index' = product_index + 1
    /\ max_depth' = MaxDepth(max_mixers)
    /\ depth' = 2
    /\ IF calculate_profit(ProductOrder[product_index + 1], SeedCombinations[1]).raised
       THEN /\ result' = calculate_profit(ProductOrder[product_index + 1], SeedCombinations[1])
            /\ pc' = "done"
            /\ UNCHANGED <<best_combinations, pruned_combinations, seen_effect_signatures>>
       ELSE /\ StorePool(SeedPool(ProductOrder[product_index + 1], top_n))
            /\ pc' = "all_search"
            /\ UNCHANGED result
    /\ AllFrame
    /\ UNCHANGED repeated

\* lines 279-321 inside the call, one depth
AllDepth ==
    /\ pc = "all_search"
    /\ depth <= max_depth
    /\ StorePool(ExploreDepth(base_product,
                              [best |-> best_combinations,
                               pruned |-> pruned_combinations,
                               seen |-> seen_effect_signatures],
                              top_n, max_mixers))
    /\ depth' = depth + 1
    /\ UNCHANGED <<pc, base_product, result, max_depth, product_index>>
    /\ AllFrame
    /\ UNCHANGED repeated

\* lines 325-359 inside the call, then the assignment of line 377 or 381
AllStore ==
    /\ pc = "all_search"
    /\ depth > max_depth
    /\ results' = DictSet(results, base_product, FinalResults(best_combinations, top_n))
    /\ best_combinations' =
            StripSelected(best_combinations, Selected(best_combinations, top_n))
    /\ pruned_combinations' =
            StripSelected(pruned_combinations, Selected(best_combinations, top_n))
    /\ pc' = "all"
    /\ UNCHANGED <<call, base_product, mixer_list, effects_list, i, effects, result,
                   top_n, max_mixers, max_depth, depth, seen_effect_signatures,
                   product_index>>
    /\ UNCHANGED repeated

\* line 384
AllReturn ==
    /\ pc = "all"
    /\ product_index = Len(ProductOrder)
    /\ result' = Returned(results)
    /\ pc' = "done"
    /\ UNCHANGED <<call, base_product, mixer_list, effects_list, i, effects>>
    /\ UNCHANGED search_vars
    /\ UNCHANGED repeated

(***************************************************************************)
(* The same call a second time, on what the first one has left             *)
(***************************************************************************)
\* lines 24-27, in a process that has run the call before
RepeatGetEffects ==
    /\ pc = "done"
    /\ ~repeated
    /\ call = "get_effects_from_mixers"
    /\ repeated' = TRUE
    /\ pc' = "loop"
    /\ i' = 0
    /\ effects' = InitialEffects(base_product)
    /\ UNCHANGED <<call, base_product, mixer_list, effects_list, result>>
    /\ UNCHANGED search_vars

\* lines 153-177, in a process that has run the call before
RepeatProfit ==
    /\ pc = "done"
    /\ ~repeated
    /\ call = "calculate_profit"
    /\ repeated' = TRUE
    /\ result' = calculate_profit(base_product, mixer_list)
    /\ UNCHANGED <<call, pc, base_product, mixer_list, effects_list, i, effects>>
    /\ UNCHANGED search_vars

\* variant: the set of signatures of the first call is still there
RepeatSearch_KeepsSignatures ==
    /\ pc = "done"
    /\ ~repeated
    /\ call = "find_top_profit_recipes"
    /\ ~result.raised
    /\ repeated' = TRUE
    /\ depth' = 2
    /\ StorePool(Merged(<<>>, AddCandidates(base_product, SeedCombinations,
                                            seen_effect_signatures), top_n))
    /\ pc' = "search"
    /\ UNCHANGED <<call, base_product, mixer_list, effects_list, i, effects, result,
                   top_n, max_mixers, max_depth, results, product_index>>

\* lines 229-276, in a process that has run the call before: the locals are
\* created anew
RepeatSearch ==
    /\ pc = "done"
    /\ ~repeated
    /\ call = "find_top_profit_recipes"
    /\ repeated' = TRUE
    /\ EnterSearch(base_product, top_n, max_mixers)

(***************************************************************************)
(* Specifications                                                          *)
(***************************************************************************)
Next ==
    \/ GetEffects
    \/ MixerLoop
    \/ ReturnEffects
    \/ MarketValue
    \/ MixerCost
    \/ ProductCost
    \/ Profit
    \/ Search
    \/ SearchDepth
    \/ SearchReturn

Spec == Init /\ [][Next]_vars

\* the same calls on the long mixer lists
NextLong ==
    \/ GetEffectsLong
    \/ MixerLoop
    \/ ReturnEffects
    \/ ProfitLong

SpecLong == Init /\ [][NextLong]_vars

\* the calls of find_top_profit_recipes over the wider set of limits
NextSearch ==
    \/ SearchWide
    \/ SearchDepth
    \/ SearchReturn

SpecSearch == Init /\ [][NextSearch]_vars

\* the calls of find_top_profit_recipes with a large top_n and no depth to
\* explore
NextLarge ==
    \/ SearchLarge
    \/ SearchReturn

SpecLarge == Init /\ [][NextLarge]_vars

\* each of the three calls, and once more with the same arguments
NextTwice ==
    \/ GetEffects
    \/ MixerLoop
    \/ ReturnEffects
    \/ Profit
    \/ Search
    \/ SearchDepth
    \/ SearchReturn
    \/ RepeatGetEffects
    \/ RepeatProfit
    \/ RepeatSearch

SpecTwice == Init /\ [][NextTwice]_vars

\* the calls of find_all_top_recipes
NextAll ==
    \/ FindAll
    \/ AllCall
    \/ AllDepth
    \/ AllStore
    \/ AllReturn

SpecAll == Init /\ [][NextAll]_vars

(***************************************************************************)
(* Properties of the effect resolver                                       *)
(***************************************************************************)
NoDuplicates(s) == \A a, b \in 1..Len(s) : a # b => s[a] # s[b]

\* positions of the working list that have a replacement rule with the mixer
RuleHits(effs, mixer) ==
    {k \in 1..Len(effs) : <<effs[k], mixer>> \in DOMAIN EFFECT_REPLACEMENTS}

Resolving == call = "get_effects_from_mixers"

\* a step of the mixer loop that applies a catalog mixer
CatalogMixerStep ==
    /\ pc = "loop"
    /\ i' = i + 1
    /\ mixer_list[i + 1] \in DOMAIN MIXERS

\* the working list before the mixer applied last
EffectsBefore == EffectsAfter(base_product, mixer_list, i - 1)

\* a catalog mixer has just been applied
CatalogMixerApplied ==
    /\ Resolving
    /\ i > 0
    /\ mixer_list[i] \in DOMAIN MIXERS

\* C1: the working list of get_effects_from_mixers holds no effect name
\* twice after any mixer application, and neither does the returned list.
C1_NoDuplicates ==
    Resolving =>
        /\ NoDuplicates(effects)
        /\ pc = "done" => NoDuplicates(result.value)

\* C2: the working list never holds more than 8 entries after any mixer
\* application and the returned list has at most 8 entries, whether
\* get_effects_from_mixers is called directly or by calculate_profit.
C2_CapInvariant ==
    /\ Resolving =>
        /\ Len(effects) <= 8
        /\ pc = "done" => Len(result.value) <= 8
    /\ (call = "calculate_profit" /\ ~result.raised) => Len(result.value.effects) <= 8

\* a mixer whose default effect was absent and that matched no rule has been
\* applied to a list of 8 entries
C2_Witness ==
    /\ CatalogMixerApplied
    /\ Len(EffectsBefore) = 8
    /\ RuleHits(EffectsBefore, mixer_list[i]) = {}
    /\ MIXERS[mixer_list[i]].effect \notin Range(EffectsBefore)
    /\ Len(effects) = 8

\* C3: when a catalog mixer is applied to a list in which one or more
\* effects have a replacement rule with it, exactly the first such entry is
\* overwritten by the rule's target; every other entry keeps its value and
\* position and the length is unchanged.
C3_FirstMatchOnly ==
    [][ CatalogMixerStep =>
          LET mixer == mixer_list[i + 1]
              hits == RuleHits(effects, mixer)
          IN  hits # {} =>
                \E f \in hits :
                    /\ \A j \in hits : f <= j
                    /\ Len(effects') = Len(effects)
                    /\ effects'[f] = EFFECT_REPLACEMENTS[<<effects[f], mixer>>]
                    /\ \A k \in 1..Len(effects) : k # f => effects'[k] = effects[k]
      ]_vars

\* a catalog mixer has been applied to a list with two or more matching
\* entries
C3_Witness ==
    /\ CatalogMixerApplied
    /\ Cardinality(RuleHits(EffectsBefore, mixer_list[i])) >= 2
    /\ effects # EffectsBefore

\* C4: when a replacement rule fires, the mixer's default effect is not
\* added in the same application (the list keeps its length and the default
\* effect is in it only if it was there before or is the rule's target);
\* get_effects_from_mixers("OG Kush", ["Mouth wash"]) is ["Anti-gravity"].
C4_NoDefaultAfterReplacement ==
    [][ /\ CatalogMixerStep =>
            LET mixer == mixer_list[i + 1]
                hits == RuleHits(effects, mixer)
                default_effect == MIXERS[mixer].effect
            IN  hits # {} =>
                  /\ Len(effects') = Len(effects)
                  /\ default_effect \in Range(effects') =>
                        \/ default_effect \in Range(effects)
                        \/ \E k \in hits : EFFECT_REPLACEMENTS[<<effects[k], mixer>>] = default_effect
        /\ (Resolving /\ pc' = "done" /\ base_product = "OG Kush" /\ mixer_list = <<"Mouth wash">>)
              => result'.value = <<"Anti-gravity">>
      ]_vars

\* the call on OG Kush with Mouth wash has returned the replaced effect alone
C4_Witness ==
    /\ Resolving
    /\ pc = "done"
    /\ base_product = "OG Kush"
    /\ mixer_list = <<"Mouth wash">>
    /\ RuleHits(InitialEffects(base_product), "Mouth wash") # {}
    /\ result.value = <<"Anti-gravity">>

\* C5: when no rule matches for a catalog mixer, its default effect is
\* appended at the end if and only if it is not in the list and the list has
\* fewer than 8 entries; otherwise the list is left exactly as it was.
C5_AppendOrUnchanged ==
    [][ CatalogMixerStep =>
          LET mixer == mixer_list[i + 1]
              default_effect == MIXERS[mixer].effect
          IN  RuleHits(effects, mixer) = {} =>
                IF default_effect \notin Range(effects) /\ Len(effects) < 8
                THEN effects' = Append(effects, default_effect)
                ELSE effects' = effects
      ]_vars

\* a mixer that matched no rule and whose default effect was already in the
\* list has been applied
C5_Witness ==
    /\ CatalogMixerApplied
    /\ RuleHits(EffectsBefore, mixer_list[i]) = {}
    /\ MIXERS[mixer_list[i]].effect \in Range(EffectsBefore)
    /\ effects = EffectsBefore

(***************************************************************************)
(* Properties of the valuation                                             *)
(***************************************************************************)
\* sum of the multipliers, in hundredths, of the listed effects the effect
\* table knows
RECURSIVE MultiplierSum(_, _)
MultiplierSum(effs, n) ==
    IF n = 0 THEN 0
    ELSE MultiplierSum(effs, n - 1)
         + (IF effs[n] \in DOMAIN EFFECTS THEN EFFECTS[effs[n]].multiplier ELSE 0)

\* base_value * (1 + sum of multipliers) to the nearest integer, X.5 to X
NearestHalfDown(product, effs) ==
    LET hundredths == BaseValue(product) * (100 + MultiplierSum(effs, Len(effs)))
    IN  IF hundredths % 100 <= 50
        THEN hundredths \div 100
        ELSE (hundredths \div 100) + 1

\* C6: the market value is base_value * (1 + sum of the multipliers of the
\* effects in the list) rounded to the nearest integer, a value of exactly
\* X.5 going down to X; for the list handed to calculate_market_value and
\* for the resolved list calculate_profit values.
C6_MarketValueRounding ==
    /\ (call = "calculate_market_value" /\ ~result.raised) =>
            result.value = NearestHalfDown(base_product, effects_list)
    /\ (call = "calculate_profit" /\ ~result.raised) =>
            result.value.market_value = NearestHalfDown(base_product, result.value.effects)

\* num/den to the nearest integer, a tie going up
NearestHalfUp(num, den) == (2 * num + den) \div (2 * den)

CatalogOnly(mixers) ==
    LET InCatalog(m) == m \in DOMAIN MIXERS
    IN  SelectSeq(mixers, InCatalog)

\* sum of the costs of a list of catalog mixers
RECURSIVE CatalogCost(_, _)
CatalogCost(mixers, n) ==
    IF n = 0 THEN 0 ELSE CatalogCost(mixers, n - 1) + MIXERS[mixers[n]].cost

\* C7: the production cost of a strain is seed_cost / average(yield_range)
\* plus the cost of every catalog mixer in the list, that of a product with
\* production info ingredients_cost / yield plus the mixer costs, and the
\* total is rounded to the nearest integer, a total of exactly X.5 going up.
C7_ProductCostRounding ==
    (/\ call = "calculate_product_cost"
     /\ base_product \in DOMAIN MARIJUANA_STRAINS \cup DOMAIN PRODUCTION_INFO) =>
        LET per_unit ==
                IF base_product \in DOMAIN MARIJUANA_STRAINS
                THEN <<2 * MARIJUANA_STRAINS[base_product].seed_cost,
                       MARIJUANA_STRAINS[base_product].yield_range[1]
                         + MARIJUANA_STRAINS[base_product].yield_range[2]>>
                ELSE <<PRODUCTION_INFO[base_product].ingredients_cost,
                       PRODUCTION_INFO[base_product].yield>>
            catalog == CatalogOnly(mixer_list)
            mixer_cost == CatalogCost(catalog, Len(catalog))
        IN  result.value = NearestHalfUp(per_unit[1] + mixer_cost * per_unit[2], per_unit[2])

\* a product of the flat-base table: the resolver starts it from no effect
NoInherentEffect == "Methamphetamine"

\* C8: for a product in neither table, calculate_market_value,
\* calculate_profit and find_top_profit_recipes end in the unknown-product
\* error whatever the mixers, top_n and max_mixers are, and never reach the
\* depth loop; get_effects_from_mixers raises nothing and returns what it
\* returns for a product with no inherent effect.
C8_UnknownProduct ==
    ~KnownProduct(base_product) =>
        /\ call \in {"calculate_market_value", "calculate_profit"} =>
                result = Raised("ValueError")
        /\ call = "find_top_profit_recipes" =>
                /\ pc = "done"
                /\ result = Raised("ValueError")
        /\ (Resolving /\ pc = "done") =>
                /\ ~result.raised
                /\ NoInherentEffect \notin DOMAIN MARIJUANA_STRAINS
                /\ result.value = get_effects_from_mixers(NoInherentEffect, mixer_list)

\* the search has ended in the error for an unknown product, with a positive
\* top_n and a positive max_mixers
C8_Witness ==
    /\ call = "find_top_profit_recipes"
    /\ ~KnownProduct(base_product)
    /\ pc = "done"
    /\ top_n > 0
    /\ max_mixers.given
    /\ max_mixers.value > 0
    /\ result = Raised("ValueError")

\* C9: get_effects_from_mixers and calculate_mixer_cost return what they
\* return on the list with every name that is not a catalog mixer removed,
\* and raise nothing.
C9_UnknownMixersIgnored ==
    /\ (Resolving /\ pc = "done") =>
          /\ ~result.raised
          /\ result.value = get_effects_from_mixers(base_product, CatalogOnly(mixer_list))
    /\ call = "calculate_mixer_cost" =>
          /\ ~result.raised
          /\ result.value = CatalogCost(CatalogOnly(mixer_list), Len(CatalogOnly(mixer_list)))

\* the call has returned on a list that holds a catalog mixer and, at a
\* place where the working list held an effect the replacement table pairs
\* with it, a name that is not a catalog mixer
C9_Witness ==
    /\ Resolving
    /\ pc = "done"
    /\ \E k \in 1..Len(mixer_list) : mixer_list[k] \in DOMAIN MIXERS
    /\ \E k \in 1..Len(mixer_list) :
          /\ mixer_list[k] \notin DOMAIN MIXERS
          /\ RuleHits(EffectsAfter(base_product, mixer_list, k - 1), mixer_list[k]) # {}
    /\ result.value = get_effects_from_mixers(base_product, CatalogOnly(mixer_list))

\* C10: calculate_profit returns profit = market_value - total_cost and the
\* margin profit / total_cost * 100 when total_cost > 0, the margin 0 when
\* total_cost is 0; it raises for an unknown product only.
C10_ProfitAndMargin ==
    call = "calculate_profit" =>
        IF result.raised THEN ~KnownProduct(base_product)
        ELSE LET r == result.value
             IN  /\ r.profit = r.market_value - r.total_cost
                 /\ r.profit_margin[2] > 0
                 /\ r.total_cost > 0 =>
                        r.profit_margin[1] * r.total_cost = r.profit * 100 * r.profit_margin[2]
                 /\ r.total_cost = 0 => r.profit_margin[1] = 0

\* a profit that is not zero has been computed on a positive cost
C10_Witness ==
    /\ call = "calculate_profit"
    /\ ~result.raised
    /\ result.value.total_cost > 0
    /\ result.value.profit < 0
    /\ result.value.profit_margin[1] < 0

(***************************************************************************)
(* Claims on addictiveness and on the cost fallback                        *)
(***************************************************************************)
\* the sum, in hundredths and without rounding, of the addictiveness of the
\* first n effects of a list
RECURSIVE AddictivenessSum(_, _)
AddictivenessSum(effs, n) ==
    IF n = 0 THEN 0
    ELSE AddictivenessSum(effs, n - 1)
         + (IF effs[n] \in DOMAIN EFFECTS THEN EFFECTS[effs[n]].addictiveness ELSE 0)

\* base addictiveness plus the effects' addictiveness, in hundredths
ExactAddictiveness(product, effs) ==
    (IF product \in DOMAIN ADDICTIVENESS THEN ADDICTIVENESS[product] ELSE 0)
    + AddictivenessSum(effs, Len(effs))

\* min(k / 100, 1.0) as the float nearest to it
CappedExact(k) == IF k >= 100 THEN FOne ELSE DecToDouble(k)

\* two floats differ by at most tol units of 2^-56
FNear(a, b, tol) ==
    /\ FLeq(a, Norm(<<b[1] + tol, b[2], b[3], b[4]>>))
    /\ FLeq(b, Norm(<<a[1] + tol, a[2], a[3], a[4]>>))

\* 2^-50, in units of 2^-56
RoundingSlack == 2^6

ProfitReturned == call = "calculate_profit" /\ pc = "done" /\ ~result.raised

\* C11 as stated: the addictiveness calculate_profit returns is
\* min(base addictiveness + sum of the effects' addictiveness, 1.0), taken
\* as the float nearest to that number.
C11_ExactAddictiveness ==
    ProfitReturned =>
        result.value.addictiveness =
            CappedExact(ExactAddictiveness(base_product, result.value.effects))

\* C11 amended: the addictiveness calculate_profit returns lies in [0, 1]
\* and is within 2^-50 of min(base addictiveness + sum of the effects'
\* addictiveness, 1.0); it is 1.0 whenever the sum exceeds 1.
C11_AddictivenessWithinRounding ==
    ProfitReturned =>
        LET a == result.value.addictiveness
            k == ExactAddictiveness(base_product, result.value.effects)
        IN  /\ FLeq(FZero, a)
            /\ FLeq(a, FOne)
            /\ FNear(a, CappedExact(k), RoundingSlack)
            /\ k > 100 => a = FOne

\* calculate_profit has returned for effects whose addictiveness sums to
\* more than 1 and, on a product with a base addictiveness, has capped it
C11_Witness ==
    /\ ProfitReturned
    /\ base_product \in DOMAIN ADDICTIVENESS
    /\ ADDICTIVENESS[base_product] > 0
    /\ ExactAddictiveness(base_product, result.value.effects) > 100
    /\ Len(result.value.effects) >= 3
    /\ result.value.addictiveness = FOne

\* C12: for a product with neither strain nor production data,
\* calculate_product_cost returns its flat base market value, or 0 when it
\* has none, plus the cost of the catalog mixers of the list; the call
\* raises for no product, known or not.
C12_CostFallback ==
    call = "calculate_product_cost" =>
        /\ ~result.raised
        /\ base_product \notin DOMAIN MARIJUANA_STRAINS \cup DOMAIN PRODUCTION_INFO =>
              result.value =
                  (IF base_product \in DOMAIN BASE_MARKET_VALUES
                   THEN BASE_MARKET_VALUES[base_product] ELSE 0)
                  + CatalogCost(CatalogOnly(mixer_list), Len(CatalogOnly(mixer_list)))

\* the cost of a flat product without production data has been returned
\* for a list that holds catalog mixers
C12_Witness ==
    /\ call = "calculate_product_cost"
    /\ base_product \in DOMAIN BASE_MARKET_VALUES
    /\ base_product \notin DOMAIN PRODUCTION_INFO
    /\ CatalogOnly(mixer_list) # <<>>
    /\ result.value > BASE_MARKET_VALUES[base_product]

(***************************************************************************)
(* Claims on find_top_profit_recipes                                       *)
(***************************************************************************)
\* the search has returned a list
SearchReturned == call = "find_top_profit_recipes" /\ pc = "done" /\ ~result.raised

\* the mixer lists of the returned recipes
ReturnedMixers == {result.value[k].mixers : k \in 1..Len(result.value)}

\* C13: no candidate the search kept and did not return has a strictly
\* greater profit margin than a recipe it returned.  best_combinations holds
\* the kept candidates when the call returns.
C13_TopMargins ==
    SearchReturned =>
        \A c \in 1..Len(best_combinations) :
            best_combinations[c].mixers \notin ReturnedMixers =>
                \A r \in 1..Len(result.value) :
                    ~MarginGt(best_combinations[c].profit_margin,
                              result.value[r].profit_margin)

\* C14: find_top_profit_recipes returns at most top_n recipes, for every
\* known product, top_n >= 0 and max_mixers.
C14_ResultCount ==
    SearchReturned => Len(result.value) <= top_n

\* the search kept more candidates than top_n and returned top_n of them,
\* top_n being more than 1
C14_Witness ==
    /\ SearchReturned
    /\ Len(best_combinations) > top_n
    /\ Len(result.value) = top_n
    /\ top_n > 1

\* C15: the returned list is ordered by non-increasing profit margin.
C15_Ordered ==
    SearchReturned =>
        \A k \in 1..(Len(result.value) - 1) :
            MarginGeq(result.value[k].profit_margin, result.value[k + 1].profit_margin)

\* two recipes have been returned, the one of smaller market value, which
\* the selection takes later, ahead of the other by its greater margin
C15_Witness ==
    /\ SearchReturned
    /\ Len(result.value) >= 2
    /\ result.value[1].market_value < result.value[2].market_value
    /\ MarginGt(result.value[1].profit_margin, result.value[2].profit_margin)

\* max(1, min(max_mixers, 8)), and 8 when max_mixers is not given
MixerBudget(limit) ==
    IF ~limit.given THEN 8
    ELSE IF limit.value < 1 THEN 1
    ELSE IF limit.value > 8 THEN 8
    ELSE limit.value

\* C16: every returned recipe has at most max(1, min(max_mixers, 8)) mixers,
\* 8 when max_mixers is not given; with max_mixers = 1 no depth is explored,
\* and a max_mixers below 1 returns what max_mixers = 1 returns, the
\* selection among the seeds.
C16_MixerBudget ==
    SearchReturned =>
        /\ \A k \in 1..Len(result.value) :
                Len(result.value[k].mixers) <= MixerBudget(max_mixers)
        /\ (max_mixers.given /\ max_mixers.value <= 1) =>
                /\ MaxDepth(Limit(1)) < 2
                /\ result.value = FinalResults(SeedPool(base_product, top_n).best, top_n)

\* a search with max_mixers below 1 has returned a recipe of one mixer
C16_Witness ==
    /\ SearchReturned
    /\ max_mixers.given
    /\ max_mixers.value < 1
    /\ \E k \in 1..Len(result.value) : Len(result.value[k].mixers) = 1

\* a list in the opposite order
Reverse(seq) == [k \in 1..Len(seq) |-> seq[Len(seq) + 1 - k]]

\* the product resolves a list and the same mixers in the opposite order to
\* effect lists that differ in more than their order
OrderMatters(product, mixers) ==
    /\ Reverse(mixers) # mixers
    /\ EffectSignature(get_effects_from_mixers(product, mixers))
          # EffectSignature(get_effects_from_mixers(product, Reverse(mixers)))

\* the lists of catalog mixers among the mixer lists of the calls
CatalogLists == {m \in MixerLists : Range(m) \subseteq DOMAIN MIXERS}

\* C17: the catalog holds a product and two mixer lists, one a reordering
\* of the other, that get_effects_from_mixers resolves to different effect
\* lists; here the two lists even differ as multisets of effects.  The fact
\* does not depend on the state and is evaluated before the first call.
C17_OrderSensitive ==
    pc = "idle" =>
        \E product \in DOMAIN BASE_MARKET_VALUES \cup DOMAIN MARIJUANA_STRAINS :
            \E mixers \in CatalogLists : OrderMatters(product, mixers)

\* get_effects_from_mixers has returned for two catalog mixers which, taken
\* in the other order, give other effects
C17_Witness ==
    /\ Resolving
    /\ pc = "done"
    /\ KnownProduct(base_product)
    /\ Len(mixer_list) = 2
    /\ Range(mixer_list) \subseteq DOMAIN MIXERS
    /\ OrderMatters(base_product, mixer_list)
    /\ result.value # get_effects_from_mixers(base_product, Reverse(mixer_list))

\* a list of catalog mixers without repeats
RepeatFree(mixers) ==
    /\ Range(mixers) \subseteq DOMAIN MIXERS
    /\ \A a, b \in 1..Len(mixers) : a # b => mixers[a] # mixers[b]

\* C18 as stated: a search with max_mixers = 8 returns no recipe whose
\* margin exceeds the best margin among all mixer sequences of at most 3
\* mixers for the same product.
C18_BoundedByThreeMixers ==
    (SearchReturned /\ max_mixers = Limit(8)) =>
        \A r \in 1..Len(result.value) :
            \E s \in SeqsUpTo(DOMAIN MIXERS, 3) :
                MarginGeq(calculate_profit(base_product, s).value.profit_margin,
                          result.value[r].profit_margin)

\* C18 amended: every returned recipe is a sequence without repeats of at
\* most max(1, min(max_mixers, 8)) catalog mixers and carries the margin
\* calculate_profit gives that sequence, so no returned margin exceeds the
\* best margin of a brute-force enumeration of those sequences.
C18_BoundedByBudgetSequences ==
    SearchReturned =>
        \A r \in 1..Len(result.value) :
            /\ RepeatFree(result.value[r].mixers)
            /\ Len(result.value[r].mixers) <= MixerBudget(max_mixers)
            /\ result.value[r].profit_margin =
                  calculate_profit(base_product, result.value[r].mixers).value.profit_margin

\* a search with max_mixers = 8 has returned a recipe of more than 3 mixers
C18_Witness ==
    /\ SearchReturned
    /\ max_mixers = Limit(8)
    /\ \E r \in 1..Len(result.value) : Len(result.value[r].mixers) > 3

\* the scenario of C19: OG Kush mixed with Cuke
ScenarioProduct == "OG Kush"
ScenarioMixers == <<"Cuke">>
ScenarioEffects == <<"Calming", "Energizing">>

\* C19: get_effects_from_mixers("OG Kush", ["Cuke"]) returns exactly
\* ["Calming", "Energizing"], no replacement rule being keyed by (Calming,
\* Cuke); calculate_market_value of OG Kush with that effect list returns 50,
\* the rounding of 38 * (1 + 0.10 + 0.22); and calculate_profit of the same
\* product and mixers returns these effects and this market value.
C19_ScenarioCuke ==
    /\ (Resolving /\ pc = "done" /\ base_product = ScenarioProduct
            /\ mixer_list = ScenarioMixers)
        => /\ result = Returned(ScenarioEffects)
           /\ <<"Calming", "Cuke">> \notin DOMAIN EFFECT_REPLACEMENTS
    /\ (call = "calculate_market_value" /\ pc = "done"
            /\ base_product = ScenarioProduct /\ effects_list = ScenarioEffects)
        => result = Returned(50)
    /\ (call = "calculate_profit" /\ pc = "done" /\ base_product = ScenarioProduct
            /\ mixer_list = ScenarioMixers)
        => /\ ~result.raised
           /\ result.value.effects = ScenarioEffects
           /\ result.value.market_value = 50

\* calculate_profit has returned for OG Kush mixed with Cuke, with the two
\* effects and the market value 50
C19_Witness ==
    /\ ProfitReturned
    /\ base_product = ScenarioProduct
    /\ mixer_list = ScenarioMixers
    /\ result.value.effects = ScenarioEffects
    /\ result.value.market_value = 50

(***************************************************************************)
(* Claims on find_all_top_recipes                                          *)
(***************************************************************************)
AllReturned == call = "find_all_top_recipes" /\ pc = "done" /\ ~result.raised

\* C20: the mapping find_all_top_recipes(top_n, max_mixers) returns has
\* exactly the flat products and the strains as keys, and the value of each
\* key p is what find_top_profit_recipes(p, top_n, max_mixers) returns when
\* it is run on its own, so no search changes the result of another.
C20_AllEqualsEach ==
    (call = "find_all_top_recipes" /\ pc = "done") =>
        /\ ~result.raised
        /\ DOMAIN result.value = DOMAIN BASE_MARKET_VALUES \cup DOMAIN MARIJUANA_STRAINS
        /\ \A p \in DOMAIN result.value :
                Returned(result.value[p]) = find_top_profit_recipes(p, top_n, max_mixers)

\* find_all_top_recipes has returned recipes for every product, and not the
\* same recipes for the first and the last of them
C20_Witness ==
    /\ AllReturned
    /\ \A p \in DOMAIN result.value : Len(result.value[p]) > 0
    /\ result.value[ProductOrder[1]] # result.value[ProductOrder[Len(ProductOrder)]]

(***************************************************************************)
(* Claims on repeated calls                                                *)
(***************************************************************************)
\* the step in which the second call with the same arguments ends
SecondCallEnds ==
    /\ repeated'
    /\ pc' = "done"
    /\ (pc # "done" \/ ~repeated)

Searching == call = "find_top_profit_recipes" /\ pc = "search"

\* the signatures of the mixer lists generated, in the order of generation
SignaturesOf(product, generated) ==
    Listed([k \in 1..Len(generated) |->
                EffectSignature(get_effects_from_mixers(product, generated[k]))])

\* the generated lists that are the first with a signature not seen before
FirstUnseen(sigs, seen) ==
    {k \in 1..Len(sigs) : /\ sigs[k] \notin seen
                          /\ \A j \in 1..(k - 1) : sigs[j] # sigs[k]}

PairwiseDistinct(seq) == \A a, b \in 1..Len(seq) : a # b => seq[a] # seq[b]

PoolSignatures(pool) == Listed([k \in 1..Len(pool) |-> pool[k].effect_signature])

\* the pool after a round is the pool before it and, of the lists generated
\* in the round, the first of every signature not seen before; it holds no
\* signature twice and the set of seen signatures is that of the pool
KeepsFirst(product, generated, sigs, seen, pool, pool_after, seen_after) ==
    /\ Range(pool_after) =
            Range(pool) \cup {Candidate(product, generated[k]) : k \in FirstUnseen(sigs, seen)}
    /\ PairwiseDistinct(PoolSignatures(pool_after))
    /\ seen_after = seen \cup Range(sigs)
    /\ seen_after = Range(PoolSignatures(pool_after))

\* the lists the round of the depth loop generates, in its order
GeneratedAtDepth == Extensions(pruned_combinations, Len(pruned_combinations), max_mixers)

\* C22: at every point of find_top_profit_recipes the pool holds at most
\* one candidate per effect signature, the first generated with it (seeds
\* in their order, then depth by depth in beam and catalog order); a later
\* list with a signature already seen is not added and so never extended,
\* and the returned recipes have pairwise different signatures.
C22_FirstOfSignatureKept ==
    [][/\ (pc = "idle" /\ Searching')
            => KeepsFirst(base_product', SeedCombinations,
                          SignaturesOf(base_product', SeedCombinations), {}, <<>>,
                          best_combinations', seen_effect_signatures')
       /\ (Searching /\ Searching')
            => KeepsFirst(base_product, GeneratedAtDepth,
                          SignaturesOf(base_product, GeneratedAtDepth),
                          seen_effect_signatures, best_combinations,
                          best_combinations', seen_effect_signatures')
       /\ (Searching /\ pc' = "done")
            => PairwiseDistinct([k \in 1..Len(result'.value) |->
                                    EffectSignature(result'.value[k].effects)])]_vars

\* the depth loop has kept a list of two mixers and discarded the same two
\* mixers in the other order, generated later from a candidate of the beam
\* with the signature of the first
C22_Witness ==
    /\ Searching
    /\ depth = 3
    /\ \E a \in 1..Len(best_combinations) :
            /\ Len(best_combinations[a].mixers) = 2
            /\ EffectSignature(get_effects_from_mixers(base_product,
                        Reverse(best_combinations[a].mixers)))
                    = best_combinations[a].effect_signature
            /\ \A b \in 1..Len(best_combinations) :
                    best_combinations[b].mixers # Reverse(best_combinations[a].mixers)
            /\ \E k \in 1..Len(SeedPool(base_product, top_n).pruned) :
                    SeedPool(base_product, top_n).pruned[k].mixers
                        = <<best_combinations[a].mixers[2]>>

(***************************************************************************)
(* Claims on the selection of find_top_profit_recipes                      *)
(***************************************************************************)
\* the market values of the pool
PoolValues(pool) == {pool[k].market_value : k \in 1..Len(pool)}

\* the n highest of a set of values
Highest(values, n) == {v \in values : Cardinality({w \in values : w > v}) < n}

\* index of the pool candidate with market value v that has the highest
\* margin, the first in pool order among equals
FirstBestIndex(pool, v) ==
    CHOOSE k \in 1..Len(pool) :
        /\ pool[k].market_value = v
        /\ \A j \in 1..Len(pool) :
                pool[j].market_value = v =>
                    \/ MarginGt(pool[k].profit_margin, pool[j].profit_margin)
                    \/ /\ pool[k].profit_margin = pool[j].profit_margin
                       /\ k <= j

\* the pool holds at least top_n distinct market values, top_n >= 1
EnoughValues ==
    /\ SearchReturned
    /\ top_n >= 1
    /\ Cardinality(PoolValues(best_combinations)) >= top_n

\* C23: when the final pool holds at least top_n >= 1 distinct market
\* values, the returned recipes are exactly the best-margin pool candidate
\* (first in pool order on a tie) of each of the top_n highest market values
\* of the pool, so the returned market values are pairwise distinct.
C23_BestOfHighestValues ==
    EnoughValues =>
        /\ Len(result.value) = top_n
        /\ Range(result.value) =
                {WithoutSignature(best_combinations[FirstBestIndex(best_combinations, v)]) :
                    v \in Highest(PoolValues(best_combinations), top_n)}
        /\ PairwiseDistinct([k \in 1..Len(result.value) |-> result.value[k].market_value])

\* two recipes were returned from a pool of enough market values in which
\* a returned market value is shared by candidates of different margins
C23_Witness ==
    /\ EnoughValues
    /\ top_n = 2
    /\ \E r \in 1..Len(result.value) : \E a \in 1..Len(best_combinations) :
            /\ best_combinations[a].market_value = result.value[r].market_value
            /\ MarginGt(result.value[r].profit_margin, best_combinations[a].profit_margin)

\* indexes of the pool candidates that represent a market value
Representatives(pool) == {FirstBestIndex(pool, v) : v \in PoolValues(pool)}

\* the pool holds fewer than top_n distinct market values
FewValues ==
    /\ SearchReturned
    /\ Cardinality(PoolValues(best_combinations)) < top_n

Min(a, b) == IF a <= b THEN a ELSE b

\* the other candidates are taken in pool order, that is by descending
\* margin, as many as top_n leaves room for
OthersInPoolOrder(pool, reps, returned, room) ==
    \A k \in (1..Len(pool)) \ reps :
        WithoutSignature(pool[k]) \in returned
            <=> Cardinality({j \in (1..Len(pool)) \ reps : j < k}) < room

\* C24: when the pool holds fewer than top_n distinct market values, the
\* result is the representative of every market value and, after them, the
\* other pool candidates in descending-margin order, none twice, and its
\* length is min(top_n, pool size); for a known product and top_n >= 1 the
\* pool holds the candidate without mixers and the result is not empty.
C24_Backfill ==
    /\ FewValues =>
            /\ Len(result.value) = Min(top_n, Len(best_combinations))
            /\ PairwiseDistinct(result.value)
            /\ \A k \in Representatives(best_combinations) :
                    WithoutSignature(best_combinations[k]) \in Range(result.value)
            /\ OthersInPoolOrder(best_combinations, Representatives(best_combinations),
                                 Range(result.value),
                                 top_n - Cardinality(PoolValues(best_combinations)))
    /\ (SearchReturned /\ top_n >= 1) =>
            /\ \E k \in 1..Len(best_combinations) : best_combinations[k].mixers = <<>>
            /\ Len(result.value) >= 1

\* the backfill has added candidates and stopped at top_n with pool
\* candidates left over
C24_Witness ==
    /\ FewValues
    /\ Len(result.value) = top_n
    /\ top_n < Len(best_combinations)

(***************************************************************************)
(* Claims on the beam of find_top_profit_recipes                           *)
(***************************************************************************)
\* place of a value in a sequence that holds it once
PlaceIn(seq, x) == CHOOSE k \in 1..Len(seq) : seq[k] = x

\* a mixer list without its last mixer, and its last mixer
Parent(mixers) == SubSeq(mixers, 1, Len(mixers) - 1)

LastMixer(mixers) == mixers[Len(mixers)]

\* the mixer lists of a sequence of candidates
MixersOf(pool) == Listed([k \in 1..Len(pool) |-> pool[k].mixers])

\* the candidates of the beam that are below the limit
Extendable(beam, limit) ==
    {c \in Range(beam) : ~limit.given \/ Len(c.mixers) < limit.value}

\* x is generated before y: its parent stands earlier in the beam, or they
\* share the parent and its last mixer stands earlier in the catalog
GeneratedBefore(beam_mixers, x, y) ==
    \/ PlaceIn(beam_mixers, Parent(x)) < PlaceIn(beam_mixers, Parent(y))
    \/ /\ Parent(x) = Parent(y)
       /\ PlaceIn(MixerOrder, LastMixer(x)) < PlaceIn(MixerOrder, LastMixer(y))

\* the lists generated are the extensions of the extendable candidates of
\* the beam by every catalog mixer they do not hold, in beam order and then
\* catalog order
ExtendsBeam(beam, limit, generated) ==
    /\ Range(generated) =
            {x \in {Append(c.mixers, m) : c \in Extendable(beam, limit), m \in DOMAIN MIXERS} :
                LastMixer(x) \notin Range(Parent(x))}
    /\ \A k \in 1..(Len(generated) - 1) :
            GeneratedBefore(MixersOf(beam), generated[k], generated[k + 1])

\* x stands before y where the margins tie: both were in the pool in this
\* order, or x was and y is new, or both are new and x was generated first
Earlier(pool, generated, x, y) ==
    IF x \in Range(pool)
    THEN y \in Range(pool) => PlaceIn(pool, x) < PlaceIn(pool, y)
    ELSE /\ y \notin Range(pool)
         /\ PlaceIn(generated, x.mixers) < PlaceIn(generated, y.mixers)

\* the pool is in descending margin order
DescendingMargin(pool) ==
    \A k \in 1..(Len(pool) - 1) :
        MarginGeq(pool[k].profit_margin, pool[k + 1].profit_margin)

\* equal margins keep the order of insertion
TiesInInsertionOrder(pool, generated, pool_after) ==
    \A k \in 1..(Len(pool_after) - 1) :
        MarginGeq(pool_after[k + 1].profit_margin, pool_after[k].profit_margin)
            => Earlier(pool, generated, pool_after[k], pool_after[k + 1])

\* the depth loop has a depth left to run
DepthLeft == depth <= 8 /\ (max_mixers.given => depth <= max_mixers.value)

\* C25: the depth loop runs the depths 2 to min(max_mixers, 8); at each the
\* beam is the first 5 * top_n candidates of the whole pool in descending
\* margin order, ties in insertion order; the candidates of the beam with
\* fewer than max_mixers mixers are each extended by every catalog mixer
\* they do not hold, in catalog order; every extension with a new signature
\* joins the pool, which is sorted again before the next beam is taken.
C25_BeamStep ==
    [][/\ Searching'
            => /\ DescendingMargin(best_combinations')
               /\ pruned_combinations' = Take(best_combinations', 5 * top_n')
       /\ (pc = "idle" /\ Searching') => depth' = 2
       /\ (Searching /\ Searching')
            => /\ DepthLeft
               /\ depth' = depth + 1
               /\ ExtendsBeam(pruned_combinations, max_mixers, GeneratedAtDepth)
               /\ Range(best_combinations) \subseteq Range(best_combinations')
               /\ \A c \in Range(best_combinations') \ Range(best_combinations) :
                        /\ c.mixers \in Range(GeneratedAtDepth)
                        /\ c.effect_signature \notin seen_effect_signatures
               /\ Range(SignaturesOf(base_product, GeneratedAtDepth))
                        \subseteq Range(PoolSignatures(best_combinations'))
               /\ TiesInInsertionOrder(best_combinations, GeneratedAtDepth,
                                       best_combinations')
       /\ (Searching /\ pc' = "done") => ~DepthLeft]_vars

\* the third depth is done, on a beam of ten that left pool candidates out
\* and held candidates of one and of two mixers, and the pool holds lists
\* of three mixers
C25_Witness ==
    /\ Searching
    /\ depth = 4
    /\ Len(pruned_combinations) = 10
    /\ Len(best_combinations) > 10
    /\ \E c \in Range(best_combinations) : Len(c.mixers) = 3

\* find_top_profit_recipes is under way or has returned
InSearch ==
    /\ call = "find_top_profit_recipes"
    /\ pc \in {"search", "done"}
    /\ ~result.raised

\* C26: the mixer list of every candidate of the pool, and so of every
\* recipe find_top_profit_recipes returns, consists of pairwise distinct
\* catalog mixers.
C26_NoMixerTwice ==
    /\ InSearch => \A c \in Range(best_combinations) : RepeatFree(c.mixers)
    /\ SearchReturned => \A r \in 1..Len(result.value) : RepeatFree(result.value[r].mixers)

\* the pool holds a candidate of two mixers, one of which would, added
\* again, replace one of the candidate's effects
C26_Witness ==
    /\ Searching
    /\ depth >= 3
    /\ \E c \in Range(best_combinations) :
            /\ Len(c.mixers) = 2
            /\ \E m \in Range(c.mixers) : ReplacementIndex(c.effects, m) # 0

\* the keys of a returned recipe
RecipeKeys ==
    {"mixers", "effects", "market_value", "total_cost", "profit", "profit_margin",
     "addictiveness"}

\* the record carries what calculate_profit returned for its mixer list
EvaluationOf(rec, evaluated) ==
    /\ ~evaluated.raised
    /\ rec.effects = evaluated.value.effects
    /\ rec.market_value = evaluated.value.market_value
    /\ rec.total_cost = evaluated.value.total_cost
    /\ rec.profit = evaluated.value.profit
    /\ rec.profit_margin = evaluated.value.profit_margin
    /\ rec.addictiveness = evaluated.value.addictiveness

\* C27: every record find_top_profit_recipes returns has exactly the keys
\* mixers, effects, market_value, total_cost, profit, profit_margin and
\* addictiveness (the effect_signature is removed), its values are what
\* calculate_profit returns for the product and the record's own mixers,
\* and its profit is market_value - total_cost.
C27_RecordIsEvaluation ==
    SearchReturned =>
        \A r \in 1..Len(result.value) :
            /\ DOMAIN result.value[r] = RecipeKeys
            /\ EvaluationOf(result.value[r],
                            calculate_profit(base_product, result.value[r].mixers))
            /\ result.value[r].profit =
                    result.value[r].market_value - result.value[r].total_cost

\* two recipes were returned, one of at least two mixers; they are records
\* of the pool, whose other records still carry their signature
C27_Witness ==
    /\ SearchReturned
    /\ Len(result.value) = 2
    /\ \E r \in 1..Len(result.value) : Len(result.value[r].mixers) >= 2
    /\ \A r \in 1..Len(result.value) : result.value[r] \in Range(best_combinations)
    /\ \E c \in Range(best_combinations) : "effect_signature" \in DOMAIN c

(***************************************************************************)
(* Claims on what the calls leave unchanged                                *)
(***************************************************************************)
\* one of the three calls is under way or has returned
InCall ==
    /\ call \in {"get_effects_from_mixers", "calculate_profit", "find_top_profit_recipes"}
    /\ pc # "idle"

\* a record is what it was, or what it was without its signature
SameButSignature(before, after) ==
    after = before \/ after = WithoutSignature(before)

C29_ReplacementRulesLive ==
    /\ \A key \in DOMAIN EFFECT_REPLACEMENTS :
            /\ key[1] \in DOMAIN EFFECTS
            /\ EFFECT_REPLACEMENTS[key] \in DOMAIN EFFECTS
    /\ (Resolving /\ pc = "loop" /\ i < Len(mixer_list)
            /\ RuleHits(effects, mixer_list[i + 1]) # {})
        => /\ mixer_list[i + 1] \in DOMAIN MIXERS
           /\ ApplyMixer(effects, mixer_list[i + 1])
                    [ReplacementIndex(effects, mixer_list[i + 1])]
                = EFFECT_REPLACEMENTS[<<effects[ReplacementIndex(effects, mixer_list[i + 1])],
                                        mixer_list[i + 1]>>]

\* C30: with the default catalog calculate_product_cost is strictly
\* positive for every known product and every mixer list, so a
\* calculate_profit that returns has a positive total_cost and its margin
\* is profit / total_cost * 100, never the 0 of the zero-cost branch.
C30_CostPositive ==
    /\ (call = "calculate_product_cost" /\ pc = "done" /\ KnownProduct(base_product))
        => /\ ~result.raised
           /\ result.value > 0
    /\ ProfitReturned
        => /\ KnownProduct(base_product)
           /\ result.value.total_cost > 0
           /\ result.value.profit_margin =
                    Frac(result.value.profit * 100, result.value.total_cost)

\* calculate_profit has returned for the cheapest product with mixers that
\* cost nothing: a total cost of 2, and a margin that is not 0
C30_Witness ==
    /\ ProfitReturned
    /\ Len(mixer_list) = 2
    /\ Range(mixer_list) \cap DOMAIN MIXERS = {}
    /\ result.value.total_cost = 2
    /\ result.value.profit_margin[1] # 0

====
